---- MODULE Spec2Model ----
(***************************************************************************)
(* Model of the TextProcessor component (src/src/TextProcessor.jsx).       *)
(*                                                                         *)
(* The component's state is the five useState cells.  Its operations are   *)
(* the event handlers handleSend, handleSummarize and handleTranslate.     *)
(* The two asynchronous handlers suspend at every await of an external     *)
(* call (summarizer create/summarize, fetch, response.json); a suspended   *)
(* call is an entry of `pending`, and each way the external call can       *)
(* return is one action.  Under Spec the handlers may be invoked at any    *)
(* time (the handlers themselves test nothing); the disabled attributes of *)
(* the controls are not part of the handlers.  Whether the page has        *)
(* window.ai.summarizer is fixed when the page loads.                      *)
(***************************************************************************)
EXTENDS Integers, Sequences, FiniteSets, TLC

\* ---------------------------------------------------------------- bounds
MaxMsgs == 2        \* messages submitted in one session
MaxPending == 2     \* handler calls suspended at an await at the same time
MaxClock == 1       \* values Date.now() takes during the session
MaxCalls == 3       \* calls of handleSummarize and handleTranslate in one session

\* --------------------------------------------------------- JS constants
Null == "<null>"                \* JavaScript null
Undefined == "<undefined>"      \* JavaScript undefined (a missing property)
EmptyObj == [k \in {} |-> ""]   \* the object literal {}

\* the `languages` table: the six configured codes
languages == {"en", "pt", "es", "ru", "tr", "fr"}

\* the values of the <option> elements of the language selector: the
\* placeholder option has value "" and comes first
SelectValues == {""} \cup languages

\* the selector values the model tries (the codes are interchangeable)
TriedTargets == {t \in SelectValues : t \in {"", "es", "fr"}}

\* ------------------------------------------------------ external values
\* the values typed into the textarea, as sequences of characters: empty,
\* whitespace only, and a word padded with whitespace on both sides
Texts == {<<>>, <<" ">>, <<" ", "b", " ">>}
Summaries == {"s1", "s2"}
\* the `translation` property of a parsed response body
TranslationFields == {Undefined, "t1", "t2"}
\* response.json() resolves with null or with an object
Bodies == {[isObject |-> FALSE, translation |-> Undefined]}
            \cup {[isObject |-> TRUE, translation |-> t] : t \in TranslationFields}
Statuses == {200, 500}

\* messages, inputText, loading, error, welcomeMessage: the useState cells
\* summarizerPresent: window.ai && window.ai.summarizer is truthy on this page
\* now:      the value Date.now() returns
\* pending:  the handler calls suspended at an await, oldest first
\* calls:    how many times handleSummarize and handleTranslate were called
\* last:     history, see Event
VARIABLES messages, inputText, loading, error, welcomeMessage,
          summarizerPresent, now, pending, calls, last

vars == <<messages, inputText, loading, error, welcomeMessage,
          summarizerPresent, now, pending, calls, last>>

\* ------------------------------------------------------------- helpers
IsSpace(c) == c = " "

RECURSIVE TrimStart(_)
TrimStart(s) ==
    IF s # <<>> /\ IsSpace(Head(s)) THEN TrimStart(Tail(s)) ELSE s

RECURSIVE TrimEnd(_)
TrimEnd(s) ==
    IF s # <<>> /\ IsSpace(s[Len(s)]) THEN TrimEnd(SubSeq(s, 1, Len(s) - 1)) ELSE s

\* faulty variant of trim: the test `!inputText.trim()` written `!inputText`
trimOmitted(s) == s

\* String.prototype.trim
trim(s) == TrimEnd(TrimStart(s))

\* the empty string is falsy
Truthy(s) == s # <<>>

RemoveAt(s, k) == SubSeq(s, 1, k - 1) \o SubSeq(s, k + 1, Len(s))

\* history: the most recent handler event (which handler ran or settled, for
\* which message id and target language, whether the target key was
\* already present in the first message of that id, and whether the settled
\* call had been overtaken, see overtake)
Event(act, id, lang, had, late) ==
    [act |-> act, id |-> id, lang |-> lang, had |-> had, late |-> late]

\* history kept in `pending`: a call is overtaken when a call issued after it
\* succeeds while it is still suspended
overtake(p, k) ==
    [j \in DOMAIN p |-> IF j < k THEN [p[j] EXCEPT !.overtaken = TRUE] ELSE p[j]]

\* the call at position k succeeds and leaves `pending`
succeeded(p, k) == RemoveAt(overtake(p, k), k)

\* ------------------------------------------------ pieces of the handlers
\* the object literal of handleSend
newMessage(id, text) ==
    [id |-> id, text |-> text, translations |-> EmptyObj, summary |-> Null]

\* faulty variant of appendMessage: prev => [newMessage, ...prev]
prependMessage(prev, m) == <<m>> \o prev

\* prev => [...prev, newMessage]
appendMessage(prev, m) == Append(prev, m)

\* messages.find(m => m.id === messageId): the first match
find(msgs, messageId) ==
    msgs[CHOOSE i \in DOMAIN msgs :
            /\ msgs[i].id = messageId
            /\ \A j \in DOMAIN msgs : msgs[j].id = messageId => i <= j]

\* faulty variant of spread: `{ [key]: value, ...obj }`, an entry already
\* present wins over the new one
spreadReversed(obj, key, value) ==
    [k \in DOMAIN obj \cup {key} |-> IF k \in DOMAIN obj THEN obj[k] ELSE value]

\* faulty variant of spread: `{ [key]: value }`, the `...obj` forgotten
spreadForgotten(obj, key, value) == [k \in {key} |-> value]

\* { ...obj, [key]: value }
spread(obj, key, value) ==
    [k \in DOMAIN obj \cup {key} |-> IF k = key THEN value ELSE obj[k]]

\* faulty variant of mergeSummary: the record rebuilt from scratch, `...msg` forgotten
mergeSummaryRebuilt(prev, messageId, summary) ==
    [i \in DOMAIN prev |->
        IF prev[i].id = messageId
        THEN [newMessage(prev[i].id, prev[i].text) EXCEPT !.summary = summary]
        ELSE prev[i]]

\* prevMessages.map(msg => msg.id === messageId ? { ...msg, summary } : msg)
mergeSummary(prev, messageId, summary) ==
    [i \in DOMAIN prev |->
        IF prev[i].id = messageId
        THEN [prev[i] EXCEPT !.summary = summary]
        ELSE prev[i]]

\* faulty variant of mergeTranslation: the message is rebuilt without ...msg,
\* its summary starting over
mergeTranslationRebuilt(prev, messageId, targetLang, translation) ==
    [i \in DOMAIN prev |->
        IF prev[i].id = messageId
        THEN [prev[i] EXCEPT !.translations = spread(@, targetLang, translation),
                             !.summary = Null]
        ELSE prev[i]]

\* prevMessages.map(msg => msg.id === messageId
\*    ? { ...msg, translations: { ...msg.translations, [targetLang]: translation } }
\*    : msg)
mergeTranslation(prev, messageId, targetLang, translation) ==
    [i \in DOMAIN prev |->
        IF prev[i].id = messageId
        THEN [prev[i] EXCEPT !.translations = spread(@, targetLang, translation)]
        ELSE prev[i]]

\* response.ok
responseOk(status) == status \in 200..299

\* data.translation || "Translation failed."
translationOf(data) ==
    IF data.translation \in {Undefined, Null, ""}
    THEN "Translation failed."
    ELSE data.translation

\* faulty variant of summarizeTextError: the caught error rethrown as it is
summarizeTextRethrow(cause) == cause

\* the catch block of summarizeText: the cause is logged and a new Error thrown
summarizeTextError(cause) == "Summarization failed"

\* faulty variant of translateTextError: the caught error rethrown as it is
translateTextRethrow(cause) == cause

\* the catch block of translateText: the cause is logged and a new Error thrown
translateTextError(cause) == "Translation failed."

\* a call suspended at an await
Op(kind, stage, id, text, lang) ==
    [kind |-> kind, stage |-> stage, id |-> id, text |-> text, lang |-> lang,
     overtaken |-> FALSE]

\* ---------------------------------------------------------------- Init
Init ==
    /\ messages = <<>>
    /\ inputText = <<>>
    /\ loading = FALSE
    /\ error = Null
    /\ welcomeMessage = TRUE
    /\ summarizerPresent \in BOOLEAN
    /\ now = 0
    /\ pending = <<>>
    /\ calls = 0
    /\ last = Event("init", 0, Null, FALSE, FALSE)

\* ------------------------------------------------------------- actions
\* textarea onChange: setInputText(e.target.value)
TypeInput(v) ==
    /\ v # inputText
    /\ inputText' = v
    /\ UNCHANGED <<messages, loading, error, welcomeMessage, now, pending,
                   calls, last, summarizerPresent>>

\* the wall clock read by Date.now() advances
Tick ==
    /\ now < MaxClock
    /\ now' = now + 1
    /\ UNCHANGED <<messages, inputText, loading, error, welcomeMessage,
                   pending, calls, last, summarizerPresent>>

\* handleSend: runs to completion, it awaits nothing
handleSend ==
    IF ~Truthy(trim(inputText))
    THEN /\ last' = Event("sendNoop", 0, Null, FALSE, FALSE)
         /\ UNCHANGED <<messages, inputText, loading, error>>
    ELSE /\ Len(messages) < MaxMsgs
         /\ messages' = appendMessage(messages, newMessage(now, inputText))
         /\ inputText' = <<>>
         /\ error' = Null
         /\ loading' = FALSE
         /\ last' = Event("send", now, Null, FALSE, FALSE)

\* faulty variant of Send: setWelcomeMessage(false) left out
SendKeepsBanner ==
    /\ handleSend
    /\ UNCHANGED <<welcomeMessage, now, pending, calls, summarizerPresent>>

\* send button onClick: handleSend(); setWelcomeMessage(false)
Send ==
    /\ handleSend
    /\ welcomeMessage' = FALSE
    /\ UNCHANGED <<now, pending, calls, summarizerPresent>>

\* faulty variant of Fail: the finally block left out
FailKeepsLoading(k, act, message) ==
    /\ error' = message
    /\ pending' = RemoveAt(pending, k)
    /\ last' = Event(act, pending[k].id, pending[k].lang, FALSE, pending[k].overtaken)
    /\ UNCHANGED <<messages, inputText, loading, welcomeMessage, now, calls,
                   summarizerPresent>>

\* the settled handler leaves `pending`; catch: setError(err.message);
\* finally: setLoading(false)
Fail(k, act, message) ==
    /\ error' = message
    /\ loading' = FALSE
    /\ pending' = RemoveAt(pending, k)
    /\ last' = Event(act, pending[k].id, pending[k].lang, FALSE, pending[k].overtaken)
    /\ UNCHANGED <<messages, inputText, welcomeMessage, now, calls,
                   summarizerPresent>>

\* handleSummarize up to its first await, the summarizer being present:
\* suspended at window.ai.summarizer.create()
StartSummarize(i) ==
    /\ summarizerPresent
    /\ Len(pending) < MaxPending
    /\ calls < MaxCalls
    /\ calls' = calls + 1
    /\ loading' = TRUE
    /\ error' = Null
    /\ pending' = Append(pending,
            Op("summarize", "create", messages[i].id,
               find(messages, messages[i].id).text, Null))
    /\ last' = Event("startSummarize", messages[i].id, Null, FALSE, FALSE)
    /\ UNCHANGED <<messages, inputText, welcomeMessage, now, summarizerPresent>>

\* handleSummarize when window.ai or window.ai.summarizer is missing: the
\* throw, both catch blocks and the finally run with no external call between
SummarizeUnavailable(i) ==
    /\ ~summarizerPresent
    /\ calls < MaxCalls
    /\ calls' = calls + 1
    /\ error' = summarizeTextError("Summarizer API is not available")
    /\ loading' = FALSE
    /\ last' = Event("summarizeFail", messages[i].id, Null, FALSE, FALSE)
    /\ UNCHANGED <<messages, inputText, welcomeMessage, now, pending,
                   summarizerPresent>>

\* create() resolves; the instance has a summarize method or not
CreateResolve(k, hasSummarize) ==
    /\ pending[k].kind = "summarize" /\ pending[k].stage = "create"
    /\ IF hasSummarize
       THEN /\ pending' = [pending EXCEPT ![k].stage = "summarize"]
            /\ last' = Event("progress", pending[k].id, Null, FALSE, FALSE)
            /\ UNCHANGED <<messages, inputText, loading, error, welcomeMessage,
                           now, calls, summarizerPresent>>
       ELSE Fail(k, "summarizeFail",
                 summarizeTextError("Summarizer API is not available"))

\* create() rejects
CreateReject(k) ==
    /\ pending[k].kind = "summarize" /\ pending[k].stage = "create"
    /\ Fail(k, "summarizeFail", summarizeTextError("create rejected"))

\* summarizerInstance.summarize(text) resolves with v
SummarizeResolve(k, v) ==
    /\ pending[k].kind = "summarize" /\ pending[k].stage = "summarize"
    /\ messages' = mergeSummary(messages, pending[k].id, v)
    /\ loading' = FALSE
    /\ pending' = succeeded(pending, k)
    /\ last' = Event("summarizeOk", pending[k].id, Null, FALSE, pending[k].overtaken)
    /\ UNCHANGED <<inputText, error, welcomeMessage, now, calls,
                   summarizerPresent>>

\* summarizerInstance.summarize(text) rejects
SummarizeReject(k) ==
    /\ pending[k].kind = "summarize" /\ pending[k].stage = "summarize"
    /\ Fail(k, "summarizeFail", summarizeTextError("summarize rejected"))

\* select onChange: handleTranslate(message.id, e.target.value) up to its
\* first await: suspended at fetch(...)
StartTranslate(i, targetLang) ==
    /\ Len(pending) < MaxPending
    /\ calls < MaxCalls
    /\ calls' = calls + 1
    /\ loading' = TRUE
    /\ error' = Null
    /\ pending' = Append(pending,
            Op("translate", "fetch", messages[i].id,
               find(messages, messages[i].id).text, targetLang))
    /\ last' = Event("startTranslate", messages[i].id, targetLang, FALSE, FALSE)
    /\ UNCHANGED <<messages, inputText, welcomeMessage, now, summarizerPresent>>

\* fetch rejects (network error)
FetchReject(k) ==
    /\ pending[k].kind = "translate" /\ pending[k].stage = "fetch"
    /\ Fail(k, "translateFail", translateTextError("fetch rejected"))

\* fetch resolves with a response of the given status
FetchResolve(k, status) ==
    /\ pending[k].kind = "translate" /\ pending[k].stage = "fetch"
    /\ IF responseOk(status)
       THEN /\ pending' = [pending EXCEPT ![k].stage = "json"]
            /\ last' = Event("progress", pending[k].id, pending[k].lang, FALSE, FALSE)
            /\ UNCHANGED <<messages, inputText, loading, error, welcomeMessage,
                           now, calls, summarizerPresent>>
       ELSE Fail(k, "translateFail",
                 translateTextError("Lingva API request failed with status"))

\* response.json() rejects: the body is not JSON
JsonReject(k) ==
    /\ pending[k].kind = "translate" /\ pending[k].stage = "json"
    /\ Fail(k, "translateFail", translateTextError("invalid JSON"))

\* response.json() resolves with data
JsonResolve(k, data) ==
    /\ pending[k].kind = "translate" /\ pending[k].stage = "json"
    /\ IF ~data.isObject
       THEN \* data.translation of null throws a TypeError inside the try
            Fail(k, "translateFail", translateTextError("TypeError"))
       ELSE /\ messages' = mergeTranslation(messages, pending[k].id, pending[k].lang,
                                            translationOf(data))
            /\ loading' = FALSE
            /\ pending' = succeeded(pending, k)
            /\ last' = Event("translateOk", pending[k].id, pending[k].lang,
                             pending[k].lang \in
                                 DOMAIN find(messages, pending[k].id).translations,
                             pending[k].overtaken)
            /\ UNCHANGED <<inputText, error, welcomeMessage, now, calls,
                           summarizerPresent>>

Next ==
    \/ \E v \in Texts : TypeInput(v)
    \/ Tick
    \/ Send
    \/ \E i \in DOMAIN messages : StartSummarize(i)
    \/ \E i \in DOMAIN messages : SummarizeUnavailable(i)
    \/ \E k \in DOMAIN pending : \E b \in BOOLEAN : CreateResolve(k, b)
    \/ \E k \in DOMAIN pending : CreateReject(k)
    \/ \E k \in DOMAIN pending : \E v \in Summaries : SummarizeResolve(k, v)
    \/ \E k \in DOMAIN pending : SummarizeReject(k)
    \/ \E i \in DOMAIN messages : \E t \in TriedTargets : StartTranslate(i, t)
    \/ \E k \in DOMAIN pending : FetchReject(k)
    \/ \E k \in DOMAIN pending : \E st \in Statuses : FetchResolve(k, st)
    \/ \E k \in DOMAIN pending : JsonReject(k)
    \/ \E k \in DOMAIN pending : \E d \in Bodies : JsonResolve(k, d)

Spec == Init /\ [][Next]_vars

\* =================================================== the rendered controls
\* Under SpecUI the handlers are called only through the controls the
\* component renders, and only while those are enabled.

\* message.text.length > 150
SummarizeMinLength == 150

\* the texts typed under SpecUI: those of Texts and one long enough for the
\* summarize button
LongText == [n \in 1..(SummarizeMinLength + 1) |-> "b"]
TextsUI == Texts \cup {LongText}

\* faulty variant of languageOf: every message is detected as English
languageEnglish(m) == "en"

\* message.language: newMessage has no such property
languageOf(m) == IF "language" \in DOMAIN m THEN m.language ELSE Undefined

\* the condition under which the Summarize button is rendered
summarizeOffered(m) ==
    /\ languageOf(m) = "en"
    /\ Len(m.text) > SummarizeMinLength
    /\ m.summary \in {Null, ""}

\* faulty variant of controlsDisabled: the disabled attributes left out
controlsNeverDisabled == FALSE

\* disabled={loading} on the Summarize button, the select and the send button
controlsDisabled == loading

\* the controls rendered on the card of message m
Controls(m) ==
    {"select"} \cup (IF summarizeOffered(m) THEN {"summarize"} ELSE {})

\* the user activates control c of the card of message i: the button's
\* onClick calls handleSummarize, the select's onChange calls handleTranslate
\* with the value of the chosen option (the select is taken to offer every
\* option at any time)
UIControl(i, c) ==
    /\ ~controlsDisabled
    /\ IF c = "summarize"
       THEN StartSummarize(i) \/ SummarizeUnavailable(i)
       ELSE \E t \in TriedTargets : StartTranslate(i, t)

\* the send button: disabled={loading || !inputText.trim()}
UISend ==
    /\ ~controlsDisabled
    /\ Truthy(trim(inputText))
    /\ Send

\* the external call at which pending[k] is suspended returns, in any of
\* the ways it can
ExternalReturn(k) ==
    CASE pending[k].stage = "create" ->
            (\E b \in BOOLEAN : CreateResolve(k, b)) \/ CreateReject(k)
      [] pending[k].stage = "summarize" ->
            (\E v \in Summaries : SummarizeResolve(k, v)) \/ SummarizeReject(k)
      [] pending[k].stage = "fetch" ->
            (\E st \in Statuses : FetchResolve(k, st)) \/ FetchReject(k)
      [] pending[k].stage = "json" ->
            (\E d \in Bodies : JsonResolve(k, d)) \/ JsonReject(k)

NextUI ==
    \/ \E v \in TextsUI : TypeInput(v)
    \/ Tick
    \/ UISend
    \/ \E i \in DOMAIN messages : \E c \in Controls(messages[i]) : UIControl(i, c)
    \/ \E k \in DOMAIN pending : ExternalReturn(k)

SpecUI == Init /\ [][NextUI]_vars

\* ============================================================== claims
NonBlank(s) == \E i \in DOMAIN s : s[i] # " "
Keys(m) == DOMAIN m.translations
WithId(msgs, id) == {i \in DOMAIN msgs : msgs[i].id = id}

\* C1: a send with an input that has a non-whitespace character appends exactly
\* one message at the end, whose text is the input as typed (untrimmed), with
\* no translations and no summary, and clears the input and the error; a send
\* with an empty or whitespace-only input changes neither the messages, the
\* input, the busy flag nor the error.
C1_Submit ==
    [][Send =>
        IF NonBlank(inputText)
        THEN /\ Len(messages') = Len(messages) + 1
             /\ SubSeq(messages', 1, Len(messages)) = messages
             /\ messages'[Len(messages')].text = inputText
             /\ Keys(messages'[Len(messages')]) = {}
             /\ messages'[Len(messages')].summary = Null
             /\ inputText' = <<>>
             /\ error' = Null
        ELSE /\ messages' = messages
             /\ inputText' = inputText
             /\ loading' = loading
             /\ error' = error]_vars

\* C1 witness: a second message was just appended after a message that already
\* has a translation; it holds the padded input as typed, and the input is
\* cleared.
C1_Witness ==
    /\ last.act = "send"
    /\ Len(messages) = 2
    /\ messages[2].text = <<" ", "b", " ">>
    /\ Keys(messages[1]) # {}
    /\ inputText = <<>>
    /\ error = Null

\* C2: a successful translate (the body carries a translation string) of
\* message id to language L leaves, in every message of that id, L holding
\* the returned string and every other key with the value it had; the key set
\* grows by L exactly, so it does not grow when L was already present.
C2_TranslateMerge ==
    [][\A k \in DOMAIN pending : \A d \in Bodies :
        (d.translation \in {"t1", "t2"} /\ JsonResolve(k, d)) =>
            \A i \in WithId(messages, pending[k].id) :
                /\ Keys(messages'[i]) = Keys(messages[i]) \cup {pending[k].lang}
                /\ messages'[i].translations[pending[k].lang] = d.translation
                /\ \A key \in Keys(messages[i]) \ {pending[k].lang} :
                      messages'[i].translations[key] = messages[i].translations[key]
                /\ pending[k].lang \in Keys(messages[i]) =>
                      Cardinality(Keys(messages'[i])) = Cardinality(Keys(messages[i]))]_vars

\* C2 witness: a translate just overwrote an entry of a message that holds two
\* configured languages with different values.
C2_Witness ==
    /\ last.act = "translateOk"
    /\ last.had
    /\ \E i \in WithId(messages, last.id) :
          /\ {"es", "fr"} \subseteq Keys(messages[i])
          /\ messages[i].translations["es"] # messages[i].translations["fr"]

\* C3: no step of a summarize or translate call that ends in failure changes
\* the messages: neither the start of the call, nor the return of an
\* intermediate external call, nor the failure itself; and the failure leaves
\* error = "Summarization failed" for summarize (summarizer missing, create or
\* summarize rejecting, instance without summarize) and "Translation failed."
\* for translate (fetch rejecting, non-success status).
C3_FailureLeavesMessage ==
    [][/\ ( \/ \E i \in DOMAIN messages : StartSummarize(i)
            \/ \E i \in DOMAIN messages : \E t \in TriedTargets : StartTranslate(i, t)
            \/ \E k \in DOMAIN pending : CreateResolve(k, TRUE)
            \/ \E k \in DOMAIN pending : FetchResolve(k, 200) )
          => messages' = messages
       /\ ( \/ \E i \in DOMAIN messages : SummarizeUnavailable(i)
            \/ \E k \in DOMAIN pending : CreateResolve(k, FALSE)
            \/ \E k \in DOMAIN pending : CreateReject(k)
            \/ \E k \in DOMAIN pending : SummarizeReject(k) )
          => (messages' = messages /\ error' = "Summarization failed")
       /\ ( \/ \E k \in DOMAIN pending : FetchReject(k)
            \/ \E k \in DOMAIN pending : FetchResolve(k, 500) )
          => (messages' = messages /\ error' = "Translation failed.")]_vars

\* C3 witness: a translate of a message that already has a summary and a
\* translation has just failed.
C3_Witness ==
    /\ last.act = "translateFail"
    /\ error = "Translation failed."
    /\ \E i \in WithId(messages, last.id) :
          messages[i].summary # Null /\ Keys(messages[i]) # {}

\* C4: when response.json() of a translate to a configured language resolves
\* with a body that has no usable translation field, the translations of
\* every message are unchanged and error = "Translation failed.".
C4_MalformedBodyFails ==
    [][\A k \in DOMAIN pending : \A d \in Bodies :
        (/\ pending[k].lang \in languages
         /\ d.translation \notin {"t1", "t2"}
         /\ JsonResolve(k, d)) =>
            /\ \A i \in DOMAIN messages :
                  messages'[i].translations = messages[i].translations
            /\ error' = "Translation failed."]_vars

\* a summarize call, or a translate call to a configured language
Regular(op) == op.kind = "summarize" \/ op.lang \in languages

\* C5: whenever a summarize call, or a translate call to a configured
\* language, is suspended at an external call, loading is true.
C5_PendingImpliesBusy ==
    (\E k \in DOMAIN pending : Regular(pending[k])) => loading

\* C6: every key of every message's translations is one of the six
\* configured language codes.
C6_KeysAreConfigured ==
    \A i \in DOMAIN messages : Keys(messages[i]) \subseteq languages

\* C7: when summarize resolves with v, every message of the call's id has
\* summary v afterwards and the same id, text and translations as before.
C7_SummarizeMerge ==
    [][\A k \in DOMAIN pending : \A v \in Summaries :
        SummarizeResolve(k, v) =>
            \A i \in WithId(messages, pending[k].id) :
                /\ messages'[i].summary = v
                /\ messages'[i].translations = messages[i].translations
                /\ messages'[i].text = messages[i].text
                /\ messages'[i].id = messages[i].id]_vars

\* C7 witness: a summarize has just succeeded on a message that has a
\* translation.
C7_Witness ==
    /\ last.act = "summarizeOk"
    /\ \E i \in WithId(messages, last.id) :
          messages[i].summary \in Summaries /\ "es" \in Keys(messages[i])

\* C8: no step shortens the message list, moves a message to another
\* position, or changes the id or the text of a message.
C8_AppendOnly ==
    [][/\ Len(messages') >= Len(messages)
       /\ \A i \in DOMAIN messages :
             /\ messages'[i].id = messages[i].id
             /\ messages'[i].text = messages[i].text]_vars

\* C8 witness: two messages with different ids, the first enriched by a
\* summary and a translation, after a failed operation.
C8_Witness ==
    /\ Len(messages) = 2
    /\ messages[1].id # messages[2].id
    /\ messages[1].summary # Null
    /\ Keys(messages[1]) # {}
    /\ error # Null

\* C9: error is null or one of the two fixed strings.
C9_ErrorIsGeneric ==
    error \in {Null, "Summarization failed", "Translation failed."}

\* C9 witness: the failure of a translate call has just been turned into the
\* fixed translation error, and nothing is suspended.
C9_Witness ==
    /\ last.act = "translateFail"
    /\ error = "Translation failed."
    /\ pending = <<>>

\* C10: while the oldest suspended call (a summarize, or a translate to a
\* configured language) stays suspended at the same external call, no step
\* turns loading from true to false.
C10_HungKeepsBusy ==
    [][(/\ pending # <<>>
        /\ Regular(pending[1])
        /\ pending' # <<>>
        /\ pending'[1] = pending[1]
        /\ loading) => loading']_vars

\* two calls for the same target: both translate the same message id to the
\* same language
SameTarget(a, b) ==
    a.kind = "translate" /\ b.kind = "translate" /\ a.id = b.id /\ a.lang = b.lang

C12_NoSummaryThroughUI ==
    /\ \A i \in DOMAIN messages : messages[i].summary = Null
    /\ \A k \in DOMAIN pending : pending[k].kind # "summarize"
    /\ last.act \notin {"startSummarize", "summarizeOk", "summarizeFail"}

\* C12 witness: a message longer than 150 characters, without a summary, has
\* been translated through its select, on a page that has the summarizer:
\* only its missing language keeps the Summarize button away.
C12_Witness ==
    /\ summarizerPresent
    /\ ~loading
    /\ \E i \in DOMAIN messages :
          /\ Len(messages[i].text) > SummarizeMinLength
          /\ messages[i].summary = Null
          /\ Keys(messages[i]) # {}

\* C13: welcomeMessage is true initially, only a click on the send button
\* changes it, every such click leaves it false, once false it stays false,
\* and it is false whenever the message list is non-empty.
C13_WelcomeUntilFirstSend ==
    /\ welcomeMessage = TRUE
    /\ [](messages # <<>> => ~welcomeMessage)
    /\ [][/\ (welcomeMessage' # welcomeMessage) => Send
          /\ Send => ~welcomeMessage'
          /\ ~welcomeMessage => ~welcomeMessage']_vars

\* C13 witness: two messages were sent, the second after a translate call
\* on the first had settled, and the banner is away.
C13_Witness ==
    /\ ~welcomeMessage
    /\ Len(messages) = 2
    /\ last.act = "send"
    /\ calls >= 1
    /\ pending = <<>>

\* the positions at which the message list differs after the step
Changed == {i \in DOMAIN messages : messages'[i] # messages[i]}

\* C14: a step in which a summarize call resolves, or a translate call to a
\* configured language gets a body with a translation, changes at most one
\* message of the list, whatever ids the messages got from Date.now().
C14_MergeChangesOneMessage ==
    [][/\ \A k \in DOMAIN pending : \A v \in Summaries :
            SummarizeResolve(k, v) => Cardinality(Changed) <= 1
       /\ \A k \in DOMAIN pending : \A d \in Bodies :
            (/\ JsonResolve(k, d)
             /\ pending[k].lang \in languages
             /\ d.translation \in {"t1", "t2"})
            => Cardinality(Changed) <= 1]_vars

\* C15: when the handlers are called only through enabled controls, at most
\* one summarize or translate call is suspended in any state, and no click
\* on the send button happens while one is suspended.
C15_OneAtATimeThroughUI ==
    /\ [](Len(pending) <= 1)
    /\ [][Send => pending = <<>>]_vars

\* C15 witness: a second call is suspended after an earlier one settled,
\* while a non-blank input is waiting in the textarea.
C15_Witness ==
    /\ Len(pending) = 1
    /\ loading
    /\ calls >= 2
    /\ Truthy(trim(inputText))
    /\ messages # <<>>

\* C16: whenever no call is suspended (every started handler has run to its
\* end, by success or by failure), loading is false.
C16_SettledImpliesIdle ==
    pending = <<>> => ~loading

\* C16 witness: two calls overlapped, the later one succeeded first and the
\* earlier one failed last; nothing is suspended any more.
C16_Witness ==
    /\ pending = <<>>
    /\ ~loading
    /\ calls = 2
    /\ last.late
    /\ last.act \in {"summarizeFail", "translateFail"}

\* C17: no step loses a result, whatever calls overlap and in whatever order
\* their responses are handled: every message stays in the list at its
\* position; every translation entry stays, with its value unless this very
\* step handles a response for that message and language; a summary stays,
\* unless this very step handles a summarize response for that message; and
\* the step that handles a successful response stores the returned value in
\* the message the call was made for, which is still in the list.
C17_NoResultLost ==
    [][/\ \A i \in DOMAIN messages :
            /\ i \in DOMAIN messages'
            /\ Keys(messages[i]) \subseteq Keys(messages'[i])
            /\ \A key \in Keys(messages[i]) :
                 (messages'[i].translations[key] # messages[i].translations[key])
                 => \E k \in DOMAIN pending : \E d \in Bodies :
                       /\ JsonResolve(k, d)
                       /\ pending[k].id = messages[i].id
                       /\ pending[k].lang = key
            /\ (messages'[i].summary # messages[i].summary)
                 => \E k \in DOMAIN pending : \E v \in Summaries :
                       /\ SummarizeResolve(k, v)
                       /\ pending[k].id = messages[i].id
                       /\ messages'[i].summary = v
       /\ \A k \in DOMAIN pending : \A d \in Bodies :
            (JsonResolve(k, d) /\ d.translation \in {"t1", "t2"})
            => /\ WithId(messages', pending[k].id) # {}
               /\ \A i \in WithId(messages', pending[k].id) :
                     /\ pending[k].lang \in Keys(messages'[i])
                     /\ messages'[i].translations[pending[k].lang] = d.translation
       /\ \A k \in DOMAIN pending : \A v \in Summaries :
            SummarizeResolve(k, v)
            => /\ WithId(messages', pending[k].id) # {}
               /\ \A i \in WithId(messages', pending[k].id) :
                     messages'[i].summary = v]_vars

\* C17 witness: three calls on one message, overlapping, have all settled,
\* the last response handled belonging to a call that another had
\* overtaken; the message holds both translations and the summary, next to
\* a second message with another id.
C17_Witness ==
    /\ pending = <<>>
    /\ calls = 3
    /\ last.late
    /\ last.act \in {"translateOk", "summarizeOk"}
    /\ Len(messages) = 2
    /\ messages[1].id # messages[2].id
    /\ {"es", "fr"} \subseteq Keys(messages[1])
    /\ messages[1].summary \in Summaries
    /\ error = Null

====
